---------------------------- MODULE Spec2Model ----------------------------
(***************************************************************************)
(* MachineFinder monitor: the periodic fetch cycle (periodic_fetch.py),    *)
(* its slug store (db_helper.py), the Telegram notifier, the               *)
(* MachinefinderDB store (database.py) and the scraping cycle of main.py.  *)
(***************************************************************************)
EXTENDS Integers, Sequences, FiniteSets, TLC

\* ------------------------------------------------------------------ bounds
NumSlugs == 3
NumCats == 2
MaxFetch == 2
RetryCeiling == 1
PageSize == 1

Slugs == 1..NumSlugs
NoSlug == 0
Categories == 1..NumCats
NoCat == 0

\* A fetched record is represented by its link.  EmptyLink is the record
\* without a link, SlashLink a link made of slashes only (its slug is empty),
\* and link l >= 2 is ".../machines/<slug l-1>".
EmptyLink == 0
SlashLink == 1
Links == 0..(NumSlugs + 1)
FetchLists == UNION {[1..n -> Links] : n \in 0..MaxFetch}
Stores == [Slugs -> Categories \cup {NoCat}]
EmptyTable == [s \in Slugs |-> NoCat]

VARIABLES
    items,                      \* table items: slug -> search_name (NoCat: no row)
    first_run_complete,         \* table config: key first_run_complete = 'true'
    pc,                         \* position of the process in main / run_cycle
    first_run,                  \* run_cycle local
    stored_slugs,               \* run_cycle local
    new_items,                  \* run_cycle local: records [slug, search_name]
    new_items_slugs,            \* run_cycle local
    cat,                        \* position of the loop over the configured searches
    existing_slugs_for_search,  \* run_cycle local
    machines,                   \* records of the fetch not yet processed
    fetched_count,              \* len(machines)
    current_slugs_for_search,   \* run_cycle local
    new_items_count,            \* run_cycle local
    deleted_count,              \* run_cycle local
    searched,                   \* the search whose reconciliation just completed
    upstream,                   \* the listing of the source on the pages the fetcher got
    emptyAttempts,              \* leading attempts the fetcher answers with [] (failed request)
    attempts,                   \* invocations of the fetcher for the search
    alerts,                     \* calls of send_alert in the cycle
    forwarded,                  \* records passed to send_new_items_notification in the cycle
    notifiedBefore,             \* slugs forwarded in an earlier cycle and not deleted since
    prevFetch,                  \* per search: the ids reconciled in the previous cycle
    thisFetch,                  \* per search: the ids reconciled in this cycle
    cycleStartItems,            \* table items as run_cycle found it
    searchStartItems,           \* table items when the search began
    machinesTable,              \* MachinefinderDB table machines: id -> search_title
    op,                         \* the latest store operation called directly
    delCall,                    \* a delete_missing_by_search between its SELECT and its DELETE
    expired,                    \* ids of table machines whose last_seen is 60 days old or older
    monitor,                    \* MachinefinderMonitor: the locals of run_once and last_cleanup_time
    cleanup_enabled,            \* configuration key cleanup_enabled
    replay,                     \* the answers of the source when they are the same in every cycle,
                                \* and the table the process then started on
    aborted,                    \* what ended the cycle before its end: "no", "csrf", "store", "interrupt"
    delivered,                  \* records whose Telegram message was sent in the cycle
    page,                       \* one call of fetch_single_page: its loop over the attempts
    lost,                       \* slugs on the pages of the search that the fetcher dropped
    lostDeleted                 \* slugs deleted while on a dropped page, not collected as new since

vars == <<items, first_run_complete, pc, first_run, stored_slugs, new_items,
          new_items_slugs, cat, existing_slugs_for_search, machines,
          fetched_count, current_slugs_for_search, new_items_count,
          deleted_count, searched, upstream, emptyAttempts, attempts, alerts,
          forwarded, notifiedBefore, prevFetch, thisFetch, cycleStartItems,
          searchStartItems, machinesTable, op, delCall, expired, monitor,
          cleanup_enabled, replay, aborted, delivered, page, lost, lostDeleted>>

\* What the process does not write: its configuration and the source.
environment == <<cleanup_enabled, replay>>

\* Variables of the callers other than periodic_fetch.py.
otherCallers == <<machinesTable, op, delCall, expired, monitor, page>>

\* ------------------------------------------------------------ db_helper.py
\* Mutant: the key read is never found, every cycle is a first run.
is_first_run_keyNotFound(flag) == TRUE

is_first_run(flag) == ~flag

\* Mutant: INSERT OR IGNORE, the row of a stored slug keeps its search_name.
upsert_item_insertOrIgnore(st, slug, search_name) ==
    IF st[slug] = NoCat THEN [st EXCEPT ![slug] = search_name] ELSE st

\* Mutant: the update of the conflicting row has no WHERE and rewrites every row.
upsert_item_noWhere(st, slug, search_name) ==
    [s \in Slugs |-> IF s = slug \/ st[s] # NoCat THEN search_name ELSE st[s]]

upsert_item(st, slug, search_name) == [st EXCEPT ![slug] = search_name]

get_slugs_by_search(st, search_name) == {s \in Slugs : st[s] = search_name}

\* Mutant: the SELECT is restricted to the first search.
get_all_slugs_firstSearch(st) == get_slugs_by_search(st, 1)

get_all_slugs(st) == {s \in Slugs : st[s] # NoCat}

\* Mutant: the difference is taken the wrong way round.
to_delete_reversed(st, search_name, current_slugs) ==
    current_slugs \ get_slugs_by_search(st, search_name)

to_delete(st, search_name, current_slugs) ==
    get_slugs_by_search(st, search_name) \ current_slugs

\* Mutant: an empty current_slugs returns at once, as in delete_missing.
delete_missing_by_search_emptyGuard(st, search_name, current_slugs) ==
    IF current_slugs = {} THEN st
    ELSE [s \in Slugs |-> IF st[s] = search_name /\ s \notin current_slugs
                          THEN NoCat ELSE st[s]]

\* Mutant: the SELECT has no WHERE search_name = ?, as in delete_missing.
delete_missing_by_search_allSearches(st, search_name, current_slugs) ==
    [s \in Slugs |-> IF s \in current_slugs THEN st[s] ELSE NoCat]

delete_missing_by_search(st, search_name, current_slugs) ==
    [s \in Slugs |-> IF s \in to_delete(st, search_name, current_slugs)
                     THEN NoCat ELSE st[s]]

\* ------------------------------------------------------- periodic_fetch.py
\* Mutant: a link without a last segment yields the first slug, not the empty string.
extract_slug_neverEmpty(link) == IF link >= 2 THEN link - 1 ELSE 1

\* _extract_slug: the last segment of the link, empty for a link of slashes only.
extract_slug(link) == IF link >= 2 THEN link - 1 ELSE NoSlug

RECURSIVE SlugsOf(_)
SlugsOf(ms) ==
    IF ms = <<>> THEN {}
    ELSE LET slug == IF Head(ms) = EmptyLink THEN NoSlug ELSE extract_slug(Head(ms))
         IN  (IF slug = NoSlug THEN {} ELSE {slug}) \cup SlugsOf(Tail(ms))

Range(f) == {f[i] : i \in DOMAIN f}

NewFor(ni, search_name) == {r.slug : r \in {x \in Range(ni) : x.search_name = search_name}}

NoFetch == [ok |-> FALSE, ids |-> {}]

\* The answers of fetch_via_api_parallel to one search: it raises, or it
\* returns a listing.
Answers == {[raises |-> TRUE, listing |-> <<>>]}
              \cup {[raises |-> FALSE, listing |-> l] : l \in FetchLists}

\* The source may answer differently in every cycle.
AnySource == [fixed |-> FALSE, lossy |-> FALSE, items |-> EmptyTable,
              fetch |-> [c \in Categories |-> [raises |-> FALSE, listing |-> <<>>]]]

NoFetches == [c \in Categories |-> NoFetch]

\* The pages after the first of a listing: page k holds the records
\* k * PageSize + 1 .. (k + 1) * PageSize.
LaterPages(listing) == {k \in 1..Len(listing) : k * PageSize < Len(listing)}

PageOf(i) == (i - 1) \div PageSize

\* "if result and 'machines' in result": the listing without the pages whose
\* fetch_single_page returned None or raised.
WithoutPages(listing, dropped) ==
    LET kept == {i \in DOMAIN listing : PageOf(i) \notin dropped}
        RECURSIVE take(_)
        take(i) == IF i > Len(listing) THEN <<>>
                   ELSE (IF i \in kept THEN <<listing[i]>> ELSE <<>>) \o take(i + 1)
    IN  take(1)

OnPages(listing, dropped) ==
    {i \in DOMAIN listing : PageOf(i) \in dropped}

\* Mutant: the test against stored_slugs is left out.
IsNewItem_ignoreStored(slug, stored, newSlugs) == slug \notin newSlugs

\* "if slug not in stored_slugs and slug not in new_items_slugs"
IsNewItem(slug, stored, newSlugs) == slug \notin stored /\ slug \notin newSlugs

\* Mutant: the notifications are sent on a first run too.
Notifications_onFirstRun(fr, ni) == ni

\* The records passed to send_new_items_notification at the end of the cycle:
\* none on a first run, else new_items, search_name by search_name.
Notifications(fr, ni) == IF fr THEN <<>> ELSE ni

\* ------------------------------------------------------ telegram_notifier.py
\* Mutant: TelegramError is caught around each machine and the loop goes on.
Delivered_eachCaught(ni, refused) == SelectSeq(ni, LAMBDA r : r.slug \notin refused)

\* send_new_items_notification sends the machines of one search_name in order
\* and stops at the first send that raises TelegramError: a record is sent
\* when neither it nor an earlier record of its search_name is refused.
Delivered(ni, refused) ==
    LET sent(i) == \A j \in 1..i :
                       ni[j].search_name = ni[i].search_name => ni[j].slug \notin refused
    IN  SelectSeq(ni, LAMBDA r : \E i \in DOMAIN ni : ni[i] = r /\ sent(i))

\* Mutant: send_new_items_notification has no "except TelegramError".
AfterDelivery_uncaught(all_sent) == IF all_sent THEN "sleep" ELSE "crashed"

\* Where main() is after the notifications of the cycle: TelegramError is
\* caught in send_new_items_notification, run_cycle returns and main sleeps.
AfterDelivery(all_sent) == "sleep"

\* ----------------------------------------------- api_mode_fetch_parallel.py
\* fetch_single_page(session, url, headers, payload, max_retries=3)
max_retries == 3

\* What one POST of fetch_single_page meets: status 200 with a body that
\* response.json() decodes to an object, status 200 with a body it raises on,
\* another status, asyncio.TimeoutError, or another exception of the request.
Outcomes == {"200", "200 undecodable", "non-200", "timeout", "exception"}

\* The call has made no attempt yet.
PageStart == [attempt |-> 0, outcomes |-> <<>>, sleeps |-> 0, returned |-> "pending"]

\* Mutant: asyncio.sleep(2) follows every failed attempt.
sleep_before_retry_always(attempt) == TRUE

\* "if attempt < max_retries - 1: await asyncio.sleep(2)"
sleep_before_retry(attempt) == attempt < max_retries - 1

\* No delete_missing_by_search is between its two statements.
NoCall == [active |-> FALSE, search_name |-> NoCat, current_slugs |-> <<>>, to_delete |-> {}]

\* "if days_since_cleanup >= 60"
CleanupDays == 60

\* The sleeps of run_continuous add up to DayStep days or to one day less
\* than CleanupDays; the days since the last cleanup are counted up to MaxDays.
DayStep == 30
SleepDays == {DayStep, CleanupDays - 1}
MaxDays == CleanupDays + 1

\* last_cleanup_time is None.
NoCleanup == -1

\* Mutant: the cleanup waits for more than 60 days.
should_cleanup_laterThan(last_cleanup_days) ==
    last_cleanup_days = NoCleanup \/ last_cleanup_days > CleanupDays

\* should_cleanup of run_once, from the days since last_cleanup_time.
should_cleanup(last_cleanup_days) ==
    last_cleanup_days = NoCleanup \/ last_cleanup_days >= CleanupDays

\* MachinefinderMonitor.__init__ and run_once before its loop:
\* last_cleanup_time is None.  cleaned records that the cleanup of the cycle
\* ran, found_days the days since last_cleanup_time it found, deleted_count
\* what it returned.
MonitorStart == [machines |-> <<>>, existing_ids |-> {}, new_items |-> <<>>,
                 saved |-> 0, items_to_notify |-> <<>>,
                 last_cleanup_days |-> NoCleanup, cleaned |-> FALSE,
                 found_days |-> NoCleanup, deleted_count |-> 0]

NoOp == [name |-> "none", ids |-> <<>>, cat |-> NoCat, raised |-> FALSE,
         before |-> EmptyTable, result |-> <<>>]

\* periodic_fetch.py does not open MachinefinderDB.
StoreUnused == /\ machinesTable = EmptyTable
               /\ op = NoOp
               /\ delCall = NoCall
               /\ expired = {}
               /\ monitor = MonitorStart

SearchLocalsReset ==
    /\ existing_slugs_for_search' = {}
    /\ machines' = <<>>
    /\ fetched_count' = 0
    /\ current_slugs_for_search' = {}
    /\ new_items_count' = 0
    /\ deleted_count' = 0
    /\ searched' = NoCat
    /\ upstream' = <<>>
    /\ lost' = {}
    /\ emptyAttempts' = 0
    /\ attempts' = 0

\* The process has not entered run_cycle yet.
ProcessStart ==
    /\ first_run = FALSE
    /\ stored_slugs = {}
    /\ new_items = <<>>
    /\ new_items_slugs = {}
    /\ cat = 1
    /\ existing_slugs_for_search = {}
    /\ machines = <<>>
    /\ fetched_count = 0
    /\ current_slugs_for_search = {}
    /\ new_items_count = 0
    /\ deleted_count = 0
    /\ searched = NoCat
    /\ upstream = <<>>
    /\ emptyAttempts = 0
    /\ attempts = 0
    /\ alerts = 0
    /\ forwarded = <<>>
    /\ notifiedBefore = {}
    /\ prevFetch = NoFetches
    /\ thisFetch = NoFetches
    /\ cycleStartItems = items
    /\ searchStartItems = items
    /\ aborted = "no"
    /\ delivered = <<>>
    /\ page = PageStart
    /\ lost = {}
    /\ lostDeleted = {}

\* main() of periodic_fetch.py starts on the database file it finds; the
\* configuration file does not set cleanup_enabled (default true).
Init ==
    /\ items \in Stores
    /\ first_run_complete \in BOOLEAN
    /\ cleanup_enabled = TRUE
    /\ replay = AnySource
    /\ pc = "sleep"
    /\ ProcessStart
    /\ StoreUnused

\* The same start with "cleanup_enabled": false in the configuration file.
InitNoCleanup ==
    /\ items \in Stores
    /\ first_run_complete \in BOOLEAN
    /\ cleanup_enabled = FALSE
    /\ replay = AnySource
    /\ pc = "sleep"
    /\ ProcessStart
    /\ StoreUnused

\* run_cycle up to the loop over the searches: is_first_run, get_all_slugs
\* and get_csrf_and_cookies, which returns.
StartCycle ==
    /\ pc = "sleep"
    /\ pc' = "search"
    /\ aborted' = "no"
    /\ first_run' = is_first_run(first_run_complete)
    /\ stored_slugs' = get_all_slugs(items)
    /\ new_items' = <<>>
    /\ new_items_slugs' = {}
    /\ cat' = 1
    /\ SearchLocalsReset
    /\ alerts' = 0
    /\ forwarded' = <<>>
    /\ delivered' = <<>>
    /\ notifiedBefore' = notifiedBefore \cup {r.slug : r \in Range(forwarded)}
    /\ prevFetch' = thisFetch
    /\ thisFetch' = NoFetches
    /\ cycleStartItems' = items
    /\ UNCHANGED <<items, first_run_complete, searchStartItems, environment,
                   lostDeleted, otherCallers>>

\* get_csrf_and_cookies raises: run_cycle raises into main, which has no handler.
CsrfFails ==
    /\ pc = "sleep"
    /\ pc' = "crashed"
    /\ aborted' = "csrf"
    /\ first_run' = is_first_run(first_run_complete)
    /\ stored_slugs' = get_all_slugs(items)
    /\ new_items' = <<>>
    /\ new_items_slugs' = {}
    /\ cat' = 1
    /\ SearchLocalsReset
    /\ alerts' = 0
    /\ forwarded' = <<>>
    /\ delivered' = <<>>
    /\ notifiedBefore' = notifiedBefore \cup {r.slug : r \in Range(forwarded)}
    /\ prevFetch' = thisFetch
    /\ thisFetch' = NoFetches
    /\ cycleStartItems' = items
    /\ UNCHANGED <<items, first_run_complete, searchStartItems, environment,
                   lostDeleted, otherCallers>>

\* One search: get_slugs_by_search, then one call of fetch_via_api_parallel,
\* which returns the listing, or [] when the initial request fails.  When the
\* source is lossy, pages after the first are dropped from the listing.
BeginSearch ==
    /\ pc = "search"
    /\ cat \in Categories
    /\ \E listing \in FetchLists, fails \in 0..(RetryCeiling + 1) :
          /\ replay.fixed => /\ replay.fetch[cat] = [raises |-> FALSE, listing |-> listing]
                             /\ fails = 0
          /\ \E dropped \in SUBSET LaterPages(listing) :
                /\ (~replay.lossy \/ fails > 0) => dropped = {}
                /\ upstream' = WithoutPages(listing, dropped)
                /\ lost' = {extract_slug(listing[i]) : i \in OnPages(listing, dropped)}
                             \ {NoSlug}
                /\ machines' = IF fails > 0 THEN <<>> ELSE WithoutPages(listing, dropped)
                /\ fetched_count' = IF fails > 0 THEN 0
                                    ELSE Len(WithoutPages(listing, dropped))
          /\ emptyAttempts' = fails
    /\ attempts' = 1
    /\ existing_slugs_for_search' = get_slugs_by_search(items, cat)
    /\ current_slugs_for_search' = {}
    /\ new_items_count' = 0
    /\ deleted_count' = 0
    /\ searched' = NoCat
    /\ searchStartItems' = items
    /\ pc' = "machines"
    /\ UNCHANGED <<items, first_run_complete, first_run, stored_slugs, new_items,
                   new_items_slugs, cat, alerts, forwarded, notifiedBefore, lostDeleted,
                   prevFetch, thisFetch, cycleStartItems, environment, aborted,
                   delivered, otherCallers>>

\* fetch_via_api_parallel raises: logged, and the loop continues with the next search.
FetchRaises ==
    /\ pc = "search"
    /\ cat \in Categories
    /\ replay.fixed => replay.fetch[cat].raises
    /\ existing_slugs_for_search' = get_slugs_by_search(items, cat)
    /\ attempts' = 1
    /\ searched' = NoCat
    /\ cat' = cat + 1
    /\ UNCHANGED <<items, first_run_complete, pc, first_run, stored_slugs, new_items,
                   new_items_slugs, machines, fetched_count,
                   current_slugs_for_search, new_items_count, deleted_count,
                   upstream, lost, emptyAttempts, alerts, forwarded, notifiedBefore, lostDeleted,
                   prevFetch, thisFetch, cycleStartItems, searchStartItems,
                   environment, aborted, delivered, otherCallers>>

\* One iteration of "for m in machines".
ProcessMachine ==
    /\ pc = "machines"
    /\ machines # <<>>
    /\ machines' = Tail(machines)
    /\ LET link == Head(machines)
           slug == extract_slug(link)
       IN  IF link = EmptyLink \/ slug = NoSlug
           THEN UNCHANGED <<items, current_slugs_for_search, new_items,
                            new_items_slugs, stored_slugs, new_items_count,
                            lostDeleted>>
           ELSE /\ current_slugs_for_search' = current_slugs_for_search \cup {slug}
                /\ items' = upsert_item(items, slug, cat)
                /\ IF IsNewItem(slug, stored_slugs, new_items_slugs)
                   THEN /\ new_items' = Append(new_items, [slug |-> slug, search_name |-> cat])
                        /\ new_items_slugs' = new_items_slugs \cup {slug}
                        /\ stored_slugs' = stored_slugs \cup {slug}
                        /\ new_items_count' = new_items_count + 1
                        /\ lostDeleted' = lostDeleted \ {slug}
                   ELSE UNCHANGED <<new_items, new_items_slugs, stored_slugs,
                                    new_items_count, lostDeleted>>
    /\ UNCHANGED <<first_run_complete, pc, first_run, cat, existing_slugs_for_search,
                   fetched_count, deleted_count, searched, upstream, lost, emptyAttempts,
                   attempts, alerts, forwarded, notifiedBefore, prevFetch,
                   thisFetch, cycleStartItems, searchStartItems, environment,
                   aborted, delivered, otherCallers>>

\* After the loop over the machines: delete_missing_by_search and the log line.
DeleteStale ==
    /\ pc = "machines"
    /\ machines = <<>>
    /\ items' = delete_missing_by_search(items, cat, current_slugs_for_search)
    /\ deleted_count' = Cardinality(to_delete(items, cat, current_slugs_for_search))
    /\ notifiedBefore' = notifiedBefore \ to_delete(items, cat, current_slugs_for_search)
    /\ lostDeleted' = lostDeleted
                         \cup (lost \cap to_delete(items, cat, current_slugs_for_search))
    /\ thisFetch' = [thisFetch EXCEPT ![cat] = [ok |-> TRUE, ids |-> current_slugs_for_search]]
    /\ searched' = cat
    /\ cat' = cat + 1
    /\ pc' = "search"
    /\ UNCHANGED <<first_run_complete, first_run, stored_slugs, new_items,
                   new_items_slugs, existing_slugs_for_search, machines,
                   fetched_count, current_slugs_for_search, new_items_count,
                   upstream, lost, emptyAttempts, attempts, alerts, forwarded,
                   prevFetch, cycleStartItems, searchStartItems, environment,
                   aborted, delivered, otherCallers>>

\* After the loop over the searches: mark_first_run_complete on a first run,
\* else one send_new_items_notification per search_name of new_items.
EndCycle ==
    /\ pc = "search"
    /\ cat = NumCats + 1
    /\ first_run_complete' = (first_run \/ first_run_complete)
    /\ forwarded' = Notifications(first_run, new_items)
    /\ \E refused \in SUBSET {r.slug : r \in Range(Notifications(first_run, new_items))} :
          /\ delivered' = Delivered(Notifications(first_run, new_items), refused)
          /\ pc' = AfterDelivery(delivered' = forwarded')
    /\ UNCHANGED <<items, first_run, stored_slugs, new_items, new_items_slugs, cat,
                   existing_slugs_for_search, machines, fetched_count,
                   current_slugs_for_search, new_items_count, deleted_count,
                   searched, upstream, lost, emptyAttempts, attempts, alerts,
                   notifiedBefore, lostDeleted, prevFetch, thisFetch, cycleStartItems,
                   searchStartItems, environment, aborted, otherCallers>>

\* The process is started again by its supervisor; the database file persists.
Restart ==
    /\ pc = "crashed"
    /\ pc' = "sleep"
    /\ UNCHANGED <<items, first_run_complete, first_run, stored_slugs, new_items,
                   new_items_slugs, cat, existing_slugs_for_search, machines,
                   fetched_count, current_slugs_for_search, new_items_count,
                   deleted_count, searched, upstream, lost, emptyAttempts, attempts, alerts,
                   forwarded, notifiedBefore, lostDeleted, prevFetch, thisFetch, cycleStartItems,
          searchStartItems, environment, aborted, delivered, otherCallers>>

\* The process ends inside the loop over the searches: the locals of the
\* search in progress are gone, the database file is as the last commit left
\* it.  first_run, cat and new_items are kept as the record of the ended cycle.
ProcessEnds ==
    /\ pc' = "crashed"
    /\ SearchLocalsReset
    /\ stored_slugs' = {}
    /\ new_items_slugs' = {}
    /\ UNCHANGED <<items, first_run_complete, first_run, new_items, cat, alerts,
                   forwarded, notifiedBefore, lostDeleted, prevFetch, thisFetch, cycleStartItems,
                   searchStartItems, environment, delivered, otherCallers>>

\* upsert_item (a record with a slug is next) or delete_missing_by_search (the
\* records are done) raises sqlite3.Error: nothing is written, run_cycle has no
\* handler around the store calls and neither has main.
StoreRaises ==
    /\ pc = "machines"
    /\ \/ machines = <<>>
       \/ /\ machines # <<>>
          /\ Head(machines) # EmptyLink
          /\ extract_slug(Head(machines)) # NoSlug
    /\ aborted' = "store"
    /\ ProcessEnds

\* The process is killed from outside while it is in the loop over the searches.
Interrupt ==
    /\ pc \in {"search", "machines"}
    /\ cat \in Categories
    /\ aborted' = "interrupt"
    /\ ProcessEnds

Next ==
    \/ StartCycle
    \/ CsrfFails
    \/ BeginSearch
    \/ FetchRaises
    \/ ProcessMachine
    \/ DeleteStale
    \/ StoreRaises
    \/ Interrupt
    \/ EndCycle
    \/ Restart

Spec == Init /\ [][Next]_vars

SpecNoCleanup == InitNoCleanup /\ [][Next]_vars

\* The answers whose records all have a slug: a record without one is skipped
\* before any store call.
SlugAnswers ==
    {a \in Answers : \A i \in DOMAIN a.listing : extract_slug(a.listing[i]) # NoSlug}

\* The listings of the source do not change: every cycle gets the same answer
\* for a search.
InitReplay ==
    /\ items \in Stores
    /\ first_run_complete \in BOOLEAN
    /\ cleanup_enabled = TRUE
    /\ replay \in [fixed : {TRUE}, lossy : {FALSE}, items : {items},
                   fetch : [Categories -> SlugAnswers]]
    /\ pc = "sleep"
    /\ ProcessStart
    /\ StoreUnused

SpecReplay == InitReplay /\ [][Next]_vars

\* The listings of the source do not change and no first run is due, but the
\* fetcher may lose pages after the first.
InitLossy ==
    /\ items \in Stores
    /\ first_run_complete = TRUE
    /\ cleanup_enabled = TRUE
    /\ replay \in [fixed : {TRUE}, lossy : {TRUE}, items : {items},
                   fetch : [Categories -> SlugAnswers]]
    /\ pc = "sleep"
    /\ ProcessStart
    /\ StoreUnused

SpecLossy == InitLossy /\ [][Next]_vars

\* The process starts after its first run on an empty table and a source whose
\* listings do not change; main keeps looping and the supervisor keeps
\* starting the process again, so a step that can be taken is taken.
InitFair ==
    /\ items = EmptyTable
    /\ first_run_complete = TRUE
    /\ cleanup_enabled = TRUE
    /\ replay \in [fixed : {TRUE}, lossy : {FALSE}, items : {items},
                   fetch : [Categories -> SlugAnswers]]
    /\ pc = "sleep"
    /\ ProcessStart
    /\ StoreUnused

SpecFair == InitFair /\ [][Next]_vars /\ WF_vars(Next)

\* Table items after the loop over the machines of one search.
RECURSIVE UpsertAll(_, _, _)
UpsertAll(st, ms, search_name) ==
    IF ms = <<>> THEN st
    ELSE LET link == Head(ms)
             slug == extract_slug(link)
         IN  UpsertAll(IF link = EmptyLink \/ slug = NoSlug
                       THEN st ELSE upsert_item(st, slug, search_name),
                       Tail(ms), search_name)

\* Table items after one search that nothing interrupts.
SearchStore(st, search_name, answer) ==
    IF answer.raises THEN st
    ELSE delete_missing_by_search(UpsertAll(st, answer.listing, search_name),
                                  search_name, SlugsOf(answer.listing))

\* Table items after the searches from search_name on, that nothing interrupts.
RECURSIVE CycleStore(_, _, _)
CycleStore(st, fetch, search_name) ==
    IF search_name > NumCats THEN st
    ELSE CycleStore(SearchStore(st, search_name, fetch[search_name]), fetch,
                    search_name + 1)

TypeOK ==
    /\ items \in Stores
    /\ pc \in {"sleep", "search", "machines", "crashed", "db_helper", "MachinefinderDB",
              "writers", "interval", "scrape", "new_items", "fetch_single_page"}
    /\ cat \in 1..(NumCats + 1)


\* ------------------------------------------------------------- database.py
get_existing_ids(tb, search_title) == {s \in Slugs : tb[s] = search_title}

\* STEP 2 of batch_process_machines: the machines whose id is not stored
\* under search_title, in the order of the batch.
new_machines(tb, ms, search_title) ==
    SelectSeq(ms, LAMBDA id : id \notin get_existing_ids(tb, search_title))

\* STEP 3: the INSERT of a row whose id is already a primary key of the
\* table, or is inserted twice by the batch, raises IntegrityError.
batch_insert_raises(tb, ms, search_title) ==
    LET nm == new_machines(tb, ms, search_title)
    IN  \/ \E i \in DOMAIN nm : tb[nm[i]] # NoCat
        \/ \E i, j \in DOMAIN nm : i # j /\ nm[i] = nm[j]

\* Mutant: the except branch commits the rows inserted before the failure.
batch_process_machines_noRollback(tb, ms, search_title) ==
    [s \in Slugs |->
        IF s \in Range(new_machines(tb, ms, search_title)) /\ tb[s] = NoCat
        THEN search_title ELSE tb[s]]

\* The table after batch_process_machines: rolled back when the INSERT raised.
batch_process_machines(tb, ms, search_title) ==
    IF ms = <<>> \/ batch_insert_raises(tb, ms, search_title)
    THEN tb
    ELSE [s \in Slugs |->
            IF s \in Range(new_machines(tb, ms, search_title)) THEN search_title ELSE tb[s]]

\* add_machine: INSERT when no row has the id, else UPDATE of last_seen only.
add_machine(tb, id, search_title) ==
    IF tb[id] = NoCat THEN [tb EXCEPT ![id] = search_title] ELSE tb

IdLists == UNION {[1..n -> Slugs] : n \in 0..MaxFetch}

\* ------------------------------------------- the store operations, called directly
\* A caller holds one of the two stores: db_helper's items.db (periodic_fetch.py)
\* or MachinefinderDB's machinefinder.db (main.py), in any state of its table.
StoreInit ==
    /\ \/ pc = "db_helper" /\ items \in Stores /\ machinesTable = EmptyTable
       \/ pc = "MachinefinderDB" /\ machinesTable \in Stores /\ items = EmptyTable
    /\ op = NoOp
    /\ delCall = NoCall
    /\ expired = {}
    /\ monitor = MonitorStart
    /\ cleanup_enabled = TRUE
    /\ replay = AnySource
    /\ first_run_complete = FALSE
    /\ ProcessStart

StoreFrame ==
    UNCHANGED <<page, delCall, expired, monitor, environment, aborted, delivered,
                first_run_complete, pc, first_run, stored_slugs, new_items,
                new_items_slugs, cat, existing_slugs_for_search, machines,
                fetched_count, current_slugs_for_search, new_items_count,
                deleted_count, searched, upstream, lost, emptyAttempts, attempts, alerts,
                forwarded, notifiedBefore, lostDeleted, prevFetch, thisFetch, cycleStartItems,
                searchStartItems>>

CallUpsertItem ==
    /\ pc = "db_helper"
    /\ \E slug \in Slugs, search_name \in Categories :
          /\ items' = upsert_item(items, slug, search_name)
          /\ op' = [name |-> "upsert_item", ids |-> <<slug>>, cat |-> search_name,
                    raised |-> FALSE, before |-> items, result |-> <<>>]
    /\ UNCHANGED machinesTable
    /\ StoreFrame

CallAddMachine ==
    /\ pc = "MachinefinderDB"
    /\ \E id \in Slugs, search_title \in Categories :
          /\ machinesTable' = add_machine(machinesTable, id, search_title)
          /\ op' = [name |-> "add_machine", ids |-> <<id>>, cat |-> search_title,
                    raised |-> FALSE, before |-> machinesTable,
                    result |-> IF machinesTable[id] = NoCat THEN <<id>> ELSE <<>>]
    /\ UNCHANGED items
    /\ StoreFrame

\* A statement of the batch may also raise sqlite3.OperationalError (locked):
\* the except branch rolls back and raises again.
CallBatchProcessMachines ==
    /\ pc = "MachinefinderDB"
    /\ \E ms \in IdLists, search_title \in Categories, locked \in BOOLEAN :
          LET raises == ms # <<>> /\ (locked \/ batch_insert_raises(machinesTable, ms, search_title))
          IN  /\ machinesTable' = IF ms # <<>> /\ locked THEN machinesTable
                                  ELSE batch_process_machines(machinesTable, ms, search_title)
              /\ op' = [name |-> "batch_process_machines", ids |-> ms, cat |-> search_title,
                        raised |-> raises,
                        before |-> machinesTable,
                        result |-> IF raises
                                   THEN <<>> ELSE new_machines(machinesTable, ms, search_title)]
    /\ UNCHANGED items
    /\ StoreFrame

\* The caller passes the set of slugs it built from a fetched list.
CallDeleteMissingBySearch ==
    /\ pc = "db_helper"
    /\ \E ms \in IdLists, search_name \in Categories :
          /\ items' = delete_missing_by_search(items, search_name, Range(ms))
          /\ op' = [name |-> "delete_missing_by_search", ids |-> ms, cat |-> search_name,
                    raised |-> FALSE, before |-> items,
                    result |-> <<Cardinality(to_delete(items, search_name, Range(ms)))>>]
    /\ UNCHANGED machinesTable
    /\ StoreFrame

StoreNext ==
    \/ CallUpsertItem
    \/ CallDeleteMissingBySearch
    \/ CallAddMachine
    \/ CallBatchProcessMachines

SpecStore == StoreInit /\ [][StoreNext]_vars

\* ------------------------------- two connections on items.db (db_helper.py)
\* Frame of the statements of the two connections: StoreFrame but for delCall.
WritersFrame ==
    UNCHANGED <<page, machinesTable, expired, monitor, environment, aborted, delivered,
                first_run_complete, pc, first_run, stored_slugs,
                new_items, new_items_slugs, cat, existing_slugs_for_search, machines,
                fetched_count, current_slugs_for_search, new_items_count,
                deleted_count, searched, upstream, lost, emptyAttempts, attempts, alerts,
                forwarded, notifiedBefore, lostDeleted, prevFetch, thisFetch, cycleStartItems,
                searchStartItems>>

WritersInit ==
    /\ pc = "writers"
    /\ items \in Stores
    /\ machinesTable = EmptyTable
    /\ op = NoOp
    /\ delCall = NoCall
    /\ expired = {}
    /\ monitor = MonitorStart
    /\ cleanup_enabled = TRUE
    /\ replay = AnySource
    /\ first_run_complete = FALSE
    /\ ProcessStart

\* delete_missing_by_search up to "if not to_delete: return 0": the SELECT of
\* the slugs of search_name and the set difference.  sqlite3 opens no
\* transaction for a SELECT, so the rows read are not locked.
SelectExisting ==
    /\ pc = "writers"
    /\ ~delCall.active
    /\ \E ms \in IdLists, search_name \in Categories :
          IF to_delete(items, search_name, Range(ms)) = {}
          THEN /\ op' = [name |-> "delete_missing_by_search", ids |-> ms,
                         cat |-> search_name, raised |-> FALSE, before |-> items,
                         result |-> <<0>>]
               /\ UNCHANGED delCall
          ELSE /\ delCall' = [active |-> TRUE, search_name |-> search_name,
                              current_slugs |-> ms,
                              to_delete |-> to_delete(items, search_name, Range(ms))]
               /\ op' = NoOp
    /\ UNCHANGED items
    /\ WritersFrame

\* The second connection commits an upsert_item after the SELECT.
OtherUpsertItem ==
    /\ pc = "writers"
    /\ delCall.active
    /\ \E slug \in Slugs, search_name \in Categories :
          items' = upsert_item(items, slug, search_name)
    /\ UNCHANGED <<op, delCall>>
    /\ WritersFrame

\* The second connection commits the DELETE of a delete_missing_by_search
\* after the SELECT.
OtherDeleteMissingBySearch ==
    /\ pc = "writers"
    /\ delCall.active
    /\ \E ms \in IdLists, search_name \in Categories :
          items' = delete_missing_by_search(items, search_name, Range(ms))
    /\ UNCHANGED <<op, delCall>>
    /\ WritersFrame

\* "DELETE FROM items WHERE slug IN (to_delete)", commit, return len(to_delete).
DeleteStatement ==
    /\ pc = "writers"
    /\ delCall.active
    /\ items' = [s \in Slugs |-> IF s \in delCall.to_delete THEN NoCat ELSE items[s]]
    /\ op' = [name |-> "delete_missing_by_search", ids |-> delCall.current_slugs,
              cat |-> delCall.search_name, raised |-> FALSE, before |-> items,
              result |-> <<Cardinality(delCall.to_delete)>>]
    /\ delCall' = NoCall
    /\ WritersFrame

WritersNext ==
    \/ SelectExisting
    \/ OtherUpsertItem
    \/ OtherDeleteMissingBySearch
    \/ DeleteStatement

SpecWriters == WritersInit /\ [][WritersNext]_vars

\* ------------------------------------------------------------------ main.py
\* run_once and run_continuous do not touch what belongs to periodic_fetch.py
\* and db_helper.py.
MonitorFrame ==
    UNCHANGED <<items, first_run_complete, first_run, stored_slugs, new_items,
                new_items_slugs, existing_slugs_for_search, machines,
                fetched_count, current_slugs_for_search, new_items_count,
                deleted_count, searched, upstream, lost, emptyAttempts, attempts,
                notifiedBefore, lostDeleted, prevFetch, thisFetch, cycleStartItems,
                searchStartItems, environment, op, delCall, page>>

\* main() of main.py: a MachinefinderMonitor on the machinefinder.db it finds,
\* about to call run_once from run_continuous.
MonitorInit ==
    /\ pc = "interval"
    /\ machinesTable \in Stores
    /\ expired \in SUBSET get_all_slugs(machinesTable)
    /\ monitor = MonitorStart
    /\ cleanup_enabled \in BOOLEAN
    /\ replay = AnySource
    /\ items = EmptyTable
    /\ first_run_complete = FALSE
    /\ op = NoOp
    /\ delCall = NoCall
    /\ ProcessStart

\* The records run_once passes to the notifier for the ids of one search.
Records(ids, search_title) ==
    [i \in DOMAIN ids |-> [slug |-> ids[i], search_name |-> search_title]]

\* run_once up to its loop over search_urls.
RunOnceStart ==
    /\ pc = "interval"
    /\ pc' = "scrape"
    /\ cat' = 1
    /\ aborted' = "no"
    /\ alerts' = 0
    /\ forwarded' = <<>>
    /\ delivered' = <<>>
    /\ monitor' = [MonitorStart EXCEPT !.last_cleanup_days = monitor.last_cleanup_days]
    /\ UNCHANGED <<machinesTable, expired>>
    /\ MonitorFrame

\* _scrape_url returns (the list it collected, [] when the scraping raised
\* inside its try), then get_existing_ids and the selection of new_items.
ScrapeUrl ==
    /\ pc = "scrape"
    /\ cat \in Categories
    /\ \E ms \in IdLists :
          monitor' = [monitor EXCEPT
                         !.machines = ms,
                         !.existing_ids = get_existing_ids(machinesTable, cat),
                         !.new_items = new_machines(machinesTable, ms, cat),
                         !.saved = 0,
                         !.items_to_notify = <<>>]
    /\ pc' = "new_items"
    /\ UNCHANGED <<machinesTable, expired, cat, aborted, alerts, forwarded, delivered>>
    /\ MonitorFrame

\* _scrape_url raises outside its try (async_playwright, chromium.launch,
\* new_context, new_page, browser.close): run_once has no handler, the
\* exception is caught by run_continuous, which waits for the next cycle.
ScrapeUrlRaises ==
    /\ pc = "scrape"
    /\ cat \in Categories
    /\ pc' = "interval"
    /\ aborted' = "fetch"
    /\ UNCHANGED <<machinesTable, expired, monitor, cat, alerts, forwarded, delivered>>
    /\ MonitorFrame

\* One iteration of "for idx, machine in enumerate(new_items, 1)": the date
\* of the detail page, batch_process_machines([machine], search_title), and
\* the append to items_to_notify when there is no date or it is today's.  The
\* IntegrityError of the INSERT leaves run_once and is caught by run_continuous.
SaveNewItem ==
    /\ pc = "new_items"
    /\ monitor.saved < Len(monitor.new_items)
    /\ LET id == monitor.new_items[monitor.saved + 1]
       IN  IF batch_insert_raises(machinesTable, <<id>>, cat)
           THEN /\ pc' = "interval"
                /\ aborted' = "store"
                /\ UNCHANGED <<machinesTable, expired, monitor>>
           ELSE /\ machinesTable' = batch_process_machines(machinesTable, <<id>>, cat)
                /\ expired' = expired \ {id}
                /\ \E notify \in BOOLEAN :
                      monitor' = [monitor EXCEPT
                                     !.saved = monitor.saved + 1,
                                     !.items_to_notify =
                                         IF notify THEN Append(monitor.items_to_notify, id)
                                         ELSE monitor.items_to_notify]
                /\ UNCHANGED <<pc, aborted>>
    /\ UNCHANGED <<cat, alerts, forwarded, delivered>>
    /\ MonitorFrame

\* After the new items: batch_process_machines(existing_machines) updates
\* last_seen, then send_new_items_notification(search_title, items_to_notify).
FinishSearch ==
    /\ pc = "new_items"
    /\ monitor.saved = Len(monitor.new_items)
    /\ LET existing_machines == SelectSeq(monitor.machines,
                                          LAMBDA id : id \in monitor.existing_ids)
           notified == Records(monitor.items_to_notify, cat)
       IN  /\ machinesTable' = batch_process_machines(machinesTable, existing_machines, cat)
           /\ expired' = expired \ Range(existing_machines)
           /\ forwarded' = forwarded \o notified
           /\ \E refused \in SUBSET Range(monitor.items_to_notify) :
                 delivered' = delivered \o Delivered(notified, refused)
    /\ cat' = cat + 1
    /\ pc' = "scrape"
    /\ UNCHANGED <<monitor, aborted, alerts>>
    /\ MonitorFrame

\* cleanup_old_machines(search_title=None, days_threshold=60)
cleanup_old_machines(tb, old) == [s \in Slugs |-> IF s \in old THEN NoCat ELSE tb[s]]

\* run_once after its loop: the cleanup when cleanup_enabled and
\* should_cleanup, with last_cleanup_time = current_time after it, and the
\* storage report by send_alert in every tenth cycle.
RunOnceEnd ==
    /\ pc = "scrape"
    /\ cat = NumCats + 1
    /\ IF cleanup_enabled /\ should_cleanup(monitor.last_cleanup_days)
       THEN /\ machinesTable' = cleanup_old_machines(machinesTable, expired)
            /\ expired' = {}
            /\ monitor' = [monitor EXCEPT !.last_cleanup_days = 0, !.cleaned = TRUE,
                                          !.found_days = monitor.last_cleanup_days,
                                          !.deleted_count = Cardinality(expired)]
       ELSE UNCHANGED <<machinesTable, expired, monitor>>
    /\ alerts' \in {0, 1}
    /\ pc' = "interval"
    /\ UNCHANGED <<cat, aborted, forwarded, delivered>>
    /\ MonitorFrame

\* cleanup_old_machines raises (the database is locked): it rolls back and
\* raises again, run_once is left before last_cleanup_time is assigned, and
\* run_continuous catches the exception.
CleanupRaises ==
    /\ pc = "scrape"
    /\ cat = NumCats + 1
    /\ cleanup_enabled
    /\ should_cleanup(monitor.last_cleanup_days)
    /\ aborted' = "cleanup"
    /\ pc' = "interval"
    /\ UNCHANGED <<machinesTable, expired, monitor, cat, alerts, forwarded, delivered>>
    /\ MonitorFrame

\* The sleep of run_continuous: rows get 60 days old, and days pass since
\* last_cleanup_time.
DaysPass ==
    /\ pc = "interval"
    /\ \E old \in SUBSET get_all_slugs(machinesTable), days \in SleepDays \cup {0} :
          /\ expired' = expired \cup old
          /\ monitor' = [monitor EXCEPT !.last_cleanup_days =
                            IF @ = NoCleanup THEN NoCleanup
                            ELSE IF @ + days > MaxDays THEN MaxDays ELSE @ + days]
          /\ (expired' # expired \/ monitor' # monitor)
    /\ UNCHANGED <<machinesTable, pc, cat, aborted, alerts, forwarded, delivered>>
    /\ MonitorFrame

\* The process is stopped during the sleep and started again: the new
\* MachinefinderMonitor has last_cleanup_time None.
MonitorRestart ==
    /\ pc = "interval"
    /\ monitor.last_cleanup_days # NoCleanup
    /\ monitor' = MonitorStart
    /\ UNCHANGED <<machinesTable, expired, pc, cat, aborted, alerts, forwarded, delivered>>
    /\ MonitorFrame

MonitorNext ==
    \/ RunOnceStart
    \/ ScrapeUrl
    \/ ScrapeUrlRaises
    \/ SaveNewItem
    \/ FinishSearch
    \/ RunOnceEnd
    \/ CleanupRaises
    \/ DaysPass
    \/ MonitorRestart

SpecMonitor == MonitorInit /\ [][MonitorNext]_vars

\* ------------------------------------------------------- fetch_single_page
\* fetch_single_page touches neither store nor the locals of run_cycle.
PageFrame ==
    UNCHANGED <<items, first_run_complete, pc, first_run, stored_slugs, new_items,
                new_items_slugs, cat, existing_slugs_for_search, machines,
                fetched_count, current_slugs_for_search, new_items_count,
                deleted_count, searched, upstream, lost, emptyAttempts, attempts, alerts,
                forwarded, notifiedBefore, lostDeleted, prevFetch, thisFetch, cycleStartItems,
                searchStartItems, machinesTable, op, delCall, expired, monitor,
                environment, aborted, delivered>>

\* fetch_via_api_parallel has created the task of one page after the first.
PageInit ==
    /\ pc = "fetch_single_page"
    /\ items = EmptyTable
    /\ first_run_complete = FALSE
    /\ cleanup_enabled = TRUE
    /\ replay = AnySource
    /\ ProcessStart
    /\ StoreUnused

\* One iteration of "for attempt in range(max_retries)": the POST, then the
\* return of data.get('results', {}) or the warning and the sleep.
PostAttempt ==
    /\ pc = "fetch_single_page"
    /\ page.returned = "pending"
    /\ page.attempt < max_retries
    /\ \E outcome \in Outcomes :
          page' = [attempt  |-> page.attempt + 1,
                   outcomes |-> Append(page.outcomes, outcome),
                   sleeps   |-> IF outcome # "200" /\ sleep_before_retry(page.attempt)
                                THEN page.sleeps + 1 ELSE page.sleeps,
                   returned |-> IF outcome = "200" THEN "results" ELSE "pending"]
    /\ PageFrame

\* After the loop: the error is logged and None is returned.
ReturnNone ==
    /\ pc = "fetch_single_page"
    /\ page.returned = "pending"
    /\ page.attempt = max_retries
    /\ page' = [page EXCEPT !.returned = "None"]
    /\ PageFrame

PageNext ==
    \/ PostAttempt
    \/ ReturnNone

SpecPage == PageInit /\ [][PageNext]_vars

\* ------------------------------------------------------------------ claims
NoDuplicates(seq) == \A i, j \in DOMAIN seq : seq[i] = seq[j] => i = j

ForwardedSlugs == {r.slug : r \in Range(forwarded)}

\* The search just reconciled got zero items from each of the RetryCeiling + 1
\* attempts the source would have answered.
AllAttemptsEmpty ==
    /\ searched # NoCat
    /\ fetched_count = 0
    /\ (upstream = <<>> \/ emptyAttempts >= RetryCeiling + 1)

\* C1: a search whose fetch returned zero items deletes nothing: the slugs
\* stored for it after its reconciliation are those stored before it.
C1_EmptyFetchDeletesNothing ==
    (searched # NoCat /\ fetched_count = 0)
        => /\ deleted_count = 0
           /\ get_slugs_by_search(items, searched) = existing_slugs_for_search

C3_StoreEqualsFetch ==
    (searched # NoCat /\ fetched_count > 0)
        => /\ get_slugs_by_search(items, searched) = SlugsOf(upstream)
           /\ deleted_count = Cardinality(existing_slugs_for_search \ SlugsOf(upstream))
           /\ \A s \in existing_slugs_for_search \ SlugsOf(upstream) : items[s] = NoCat

C3_Witness ==
    /\ searched # NoCat
    /\ fetched_count > 0
    /\ new_items_count = 1
    /\ deleted_count = 1
    /\ existing_slugs_for_search \cap SlugsOf(upstream) # {}

\* C4: when every attempt of a search returns zero items, one alert is sent,
\* nothing is deleted or collected as new, and the search's slugs are unchanged.
C4_ExhaustedRetriesAlertOnce ==
    AllAttemptsEmpty
        => /\ alerts = 1
           /\ deleted_count = 0
           /\ new_items_count = 0
           /\ get_slugs_by_search(items, searched) = existing_slugs_for_search

\* C5: when the first N attempts (1 <= N <= RetryCeiling) return zero items
\* and the next returns the listing, the fetcher is invoked N + 1 times, the
\* cleanup runs against the listing and a recovery alert is sent.
C5_RecoveryAfterRetry ==
    (searched # NoCat /\ emptyAttempts \in 1..RetryCeiling /\ Len(upstream) > 0)
        => /\ attempts = emptyAttempts + 1
           /\ current_slugs_for_search = SlugsOf(upstream)
           /\ alerts = 1

\* The search just reconciled fetched the slugs it fetched in the previous cycle.
SameFetchAsPrevious ==
    /\ searched # NoCat
    /\ prevFetch[searched].ok
    /\ prevFetch[searched].ids = current_slugs_for_search

\* C6 as stated: reconciling a search with the fetch result of the previous
\* cycle yields no new item, no deletion and an unchanged store.
C6_SecondRunChangesNothing ==
    SameFetchAsPrevious
        => /\ new_items_count = 0
           /\ deleted_count = 0
           /\ items = searchStartItems

\* C6 amended: it yields no new item, no deletion and the same set of stored
\* slugs; a row changes only by getting this search as its search_name.
C6_SecondRunIdempotent ==
    SameFetchAsPrevious
        => /\ new_items_count = 0
           /\ deleted_count = 0
           /\ get_all_slugs(items) = get_all_slugs(searchStartItems)
           /\ \A s \in Slugs :
                 items[s] # searchStartItems[s]
                    => s \in current_slugs_for_search /\ items[s] = searched

C6_Witness ==
    /\ SameFetchAsPrevious
    /\ current_slugs_for_search # {}
    /\ items # searchStartItems

\* The search just reconciled had non-empty fetches in the previous cycle and
\* in this one, and this cycle is no first run.
TwoFetches ==
    /\ searched # NoCat
    /\ ~first_run
    /\ prevFetch[searched].ok
    /\ prevFetch[searched].ids # {}
    /\ current_slugs_for_search # {}

StoredElsewhereAtStart(c) == {s \in Slugs : cycleStartItems[s] \notin {NoCat, c}}

NewForOthers(c) == {r.slug : r \in {x \in Range(new_items) : x.search_name # c}}

\* C7 as stated: the new items of the second cycle are ids(R2) \ ids(R1).
C7_NewIsDifference ==
    TwoFetches
        => NewFor(new_items, searched)
              = current_slugs_for_search \ prevFetch[searched].ids

\* C7 amended: the new items of the second cycle are ids(R2) \ ids(R1) without
\* the slugs stored under another search at the start of the cycle and without
\* the slugs collected as new for an earlier search of the cycle.
C7_NewIsDifferenceNotSeen ==
    TwoFetches
        => /\ NewFor(new_items, searched)
                 = (current_slugs_for_search \ prevFetch[searched].ids)
                      \ (StoredElsewhereAtStart(searched) \cup NewForOthers(searched))
           /\ Cardinality(NewFor(new_items, searched)) = new_items_count

C7_Witness ==
    /\ TwoFetches
    /\ new_items_count > 0
    /\ (current_slugs_for_search \ prevFetch[searched].ids)
          \cap StoredElsewhereAtStart(searched) # {}

\* C8: a slug is passed to send_new_items_notification at most once in a
\* cycle, and never while it is still stored since an earlier cycle passed it.
C8_NotifyOnce ==
    /\ NoDuplicates([i \in DOMAIN forwarded |-> forwarded[i].slug])
    /\ ForwardedSlugs \cap notifiedBefore = {}

C8_Witness ==
    /\ pc = "sleep"
    /\ forwarded # <<>>
    /\ \E c \in Categories : thisFetch[c].ok /\ thisFetch[c].ids \cap notifiedBefore # {}

\* The table the latest store operation wrote.
OpTable == IF op.name = "upsert_item" THEN items ELSE machinesTable

\* The latest operation stored an id that was recorded under another category.
OpMovesCategory ==
    /\ op.name \in {"upsert_item", "add_machine", "batch_process_machines"}
    /\ \E i \in DOMAIN op.ids : op.before[op.ids[i]] \notin {NoCat, op.cat}

\* C9: in both stores an upsert of a stored identifier with a different
\* category succeeds and records the new category for it.
C9_UpsertReplacesCategory ==
    OpMovesCategory
        => /\ ~op.raised
           /\ \A i \in DOMAIN op.ids : OpTable[op.ids[i]] = op.cat

\* C10: a second upsert_item(slug, search_name) leaves the table as the first
\* one made it, and the first changes no row of another slug.
C10_UpsertIdempotent ==
    op.name = "upsert_item"
        => /\ upsert_item(items, op.ids[1], op.cat) = items
           /\ items[op.ids[1]] = op.cat
           /\ \A s \in Slugs \ {op.ids[1]} : items[s] = op.before[s]

C10_Witness ==
    /\ op.name = "upsert_item"
    /\ op.before[op.ids[1]] \notin {NoCat, op.cat}
    /\ \E s \in Slugs \ {op.ids[1]} : items[s] \notin {NoCat, op.cat}

\* C11: delete_missing_by_search(search_name, current_slugs) removes exactly
\* the slugs stored under search_name that are not in current_slugs, returns
\* their number, and leaves the rows of every other search as they were.
C11_DeleteRemovesExactlyStale ==
    op.name = "delete_missing_by_search" =>
        LET stale == {s \in Slugs : op.before[s] = op.cat /\ s \notin Range(op.ids)}
        IN  /\ \A s \in stale : items[s] = NoCat
            /\ \A s \in Slugs \ stale : items[s] = op.before[s]
            /\ op.result = <<Cardinality(stale)>>
            /\ \A s \in Slugs : op.before[s] \notin {NoCat, op.cat} => items[s] = op.before[s]

\* A call that removed a row while a slug outside current_slugs is stored
\* under another search.
C11_Witness ==
    /\ op.name = "delete_missing_by_search"
    /\ op.result # <<0>>
    /\ \E s \in Slugs \ Range(op.ids) : op.before[s] \notin {NoCat, op.cat} /\ items[s] = op.before[s]

\* C12: delete_missing_by_search reads and deletes as one atomic step: with
\* another writer between the read and the delete, the DELETE removes no slug
\* of the caller's current_slugs and no slug that belongs to another search
\* when the DELETE runs (op.before is the table the DELETE found).
C12_DeleteAtomicWithRead ==
    (pc = "writers" /\ op.name = "delete_missing_by_search") =>
        \A s \in Slugs :
            (op.before[s] # NoCat /\ items[s] = NoCat) =>
                (s \notin Range(op.ids) /\ op.before[s] = op.cat)

\* C13: when the fetcher raises for one search, the exception is caught, the
\* rows stored for that search are left as they are, and the cycle goes on
\* with the search that follows.
C13_FetchErrorSkipsOneSearch ==
    [][(aborted # "fetch" /\ aborted' = "fetch")
         => (machinesTable' = machinesTable /\ pc' = "scrape" /\ cat' = cat + 1)]_vars

\* C14: when upsert_item or delete_missing_by_search raises while one search
\* is reconciled, only that search is given up: the cycle goes on with the
\* search that follows.
C14_StoreErrorSkipsOneSearch ==
    [][(aborted # "store" /\ aborted' = "store") => (pc' = "search" /\ cat' = cat + 1)]_vars

\* C15: the loop of main has no stop condition of its own: no exception of a
\* cycle (get_csrf_and_cookies, the store, the notifier) ends the process, so
\* the sleep is taken and the next cycle starts; only a kill from outside ends it.
C15_LoopSurvivesExceptions ==
    pc = "crashed" => aborted = "interrupt"

\* C16: a notification is first passed to send_new_items_notification after
\* the loop over the searches, a send that fails does not raise into run_cycle
\* (main goes to its sleep, the cycle is not aborted), and the step that sends
\* leaves table items and the first-run flag as the loop left them, whatever
\* is delivered.
C16_DeliveryFailureHarmless ==
    /\ [](forwarded # <<>> => (pc = "sleep" /\ aborted = "no" /\ cat = NumCats + 1))
    /\ [][(forwarded' # forwarded /\ forwarded' # <<>>)
            => (items' = items /\ first_run_complete' = first_run_complete)]_vars

\* A cycle that wrote to the store and whose notifications were not all delivered.
C16_Witness ==
    /\ pc = "sleep"
    /\ forwarded # <<>>
    /\ delivered # forwarded
    /\ items # cycleStartItems

\* C17: with cleanup_enabled false no stored slug is deleted, in any cycle.
C17_NoDeletionWhenCleanupDisabled ==
    [][~cleanup_enabled => \A s \in Slugs : items[s] # NoCat => items'[s] # NoCat]_vars

C19_NewIsNotStoredForSearch ==
    searched # NoCat
        => NewFor(new_items, searched)
              = current_slugs_for_search \ existing_slugs_for_search

\* C19 amended: they are the fetched slugs that were stored under no search at
\* all when the cycle started and were not collected for an earlier search.
C19_NewIsNotStoredAnywhere ==
    searched # NoCat
        => NewFor(new_items, searched)
              = current_slugs_for_search
                   \ (get_all_slugs(cycleStartItems) \cup NewForOthers(searched))

\* A search reconciled with a new slug and with a fetched slug that was stored
\* under another search only.
C19_Witness ==
    /\ searched # NoCat
    /\ new_items_count > 0
    /\ \E s \in current_slugs_for_search \ existing_slugs_for_search :
          cycleStartItems[s] \notin {NoCat, searched}

\* A cycle has run to its end.
CycleCompleted == pc = "sleep" /\ aborted = "no" /\ cat = NumCats + 1

\* C20: with the same fetch results in every cycle, a cycle that runs to its
\* end leaves table items as one uninterrupted cycle from the first table
\* does, whatever cycles were ended between two store writes before it.
C20_ReplayAfterInterrupt ==
    (replay.fixed /\ CycleCompleted) => items = CycleStore(replay.items, replay.fetch, 1)

\* A complete cycle after a cycle that was ended after it had reconciled the
\* first search, with upserts, and before the last search, which does not raise.
C20_Witness ==
    /\ replay.fixed
    /\ CycleCompleted
    /\ prevFetch[1].ok
    /\ prevFetch[1].ids # {}
    /\ ~prevFetch[NumCats].ok
    /\ ~replay.fetch[NumCats].raises
    /\ replay.fetch[NumCats].listing # <<>>
    /\ items # replay.items

\* The slugs of the records of a listing that have one.
RecordsWithSlug(ms) == {s \in Slugs : \E i \in DOMAIN ms : ms[i] = s + 1}

HasSluglessRecord(ms) == \E i \in DOMAIN ms : ms[i] \in {EmptyLink, SlashLink}

\* C21: a fetched record without a link or with an empty slug is skipped
\* alone: its iteration adds nothing to current_slugs_for_search, to table
\* items or to new_items and goes on with the next record; the records with a
\* slug are all processed and delete_missing_by_search runs for the search.
C21_SluglessRecordSkippedAlone ==
    /\ [][(/\ pc = "machines" /\ pc' = "machines"
           /\ machines # <<>>
           /\ Head(machines) \in {EmptyLink, SlashLink})
            => /\ machines' = Tail(machines)
               /\ items' = items
               /\ current_slugs_for_search' = current_slugs_for_search
               /\ new_items' = new_items
               /\ stored_slugs' = stored_slugs]_vars
    /\ []((searched # NoCat /\ emptyAttempts = 0 /\ HasSluglessRecord(upstream))
            => /\ current_slugs_for_search = RecordsWithSlug(upstream)
               /\ get_slugs_by_search(items, searched) = RecordsWithSlug(upstream)
               /\ NewFor(new_items, searched) \subseteq RecordsWithSlug(upstream)
               /\ deleted_count
                    = Cardinality(existing_slugs_for_search \ RecordsWithSlug(upstream)))

\* A search reconciled whose listing has a record without a slug before a
\* record with a new slug, and whose cleanup deleted a row.
C21_Witness ==
    /\ searched # NoCat
    /\ emptyAttempts = 0
    /\ Len(upstream) = 2
    /\ upstream[1] \in {EmptyLink, SlashLink}
    /\ upstream[2] >= 2
    /\ items[upstream[2] - 1] = searched
    /\ new_items_count = 1
    /\ deleted_count > 0

\* C24: a failed initial request makes fetch_via_api_parallel return [] and
\* raise nothing, and run_cycle treats the search as one without items:
\* nothing is upserted or collected, delete_missing_by_search runs with an
\* empty current set and removes every row of the search, the cycle goes on.
C24_FailedRequestIsEmptyFetch ==
    (searched # NoCat /\ emptyAttempts > 0)
        => /\ fetched_count = 0
           /\ current_slugs_for_search = {}
           /\ new_items_count = 0
           /\ items = delete_missing_by_search(searchStartItems, searched, {})
           /\ get_slugs_by_search(items, searched) = {}
           /\ deleted_count = Cardinality(existing_slugs_for_search)
           /\ aborted = "no"
           /\ pc \in {"search", "sleep"}

\* The request failed while the source lists items and rows were stored for
\* the search.
C24_Witness ==
    /\ searched # NoCat
    /\ emptyAttempts > 0
    /\ SlugsOf(upstream) # {}
    /\ deleted_count > 0
    /\ get_all_slugs(items) # {}

ForSearch(seq, search_name) == SelectSeq(seq, LAMBDA r : r.search_name = search_name)

IsPrefix(a, b) == Len(a) <= Len(b) /\ a = SubSeq(b, 1, Len(a))

SearchesListing(s) ==
    {c \in Categories : ~replay.fetch[c].raises /\ s \in SlugsOf(replay.fetch[c].listing)}

Min(S) == CHOOSE x \in S : \A y \in S : x <= y

Max(S) == CHOOSE x \in S : \A y \in S : y <= x

NewRecordsOf(s) == {i \in DOMAIN new_items : new_items[i].slug = s}

\* C27: with the same slug in the fetch of two searches, a cycle that runs to
\* its end and did not find the slug stored collects it as new once, under the
\* first of these searches, and passes it once unless the cycle is a first
\* run; table items records it under the last of them; a cycle that found it
\* stored does not collect it, and its row, once stored under one of these
\* searches, is never deleted.
C27_SharedSlugNewOnce ==
    /\ [](replay.fixed /\ CycleCompleted =>
            \A s \in Slugs : Cardinality(SearchesListing(s)) >= 2 =>
                /\ items[s] = Max(SearchesListing(s))
                /\ IF cycleStartItems[s] = NoCat
                   THEN /\ Cardinality(NewRecordsOf(s)) = 1
                        /\ \A i \in NewRecordsOf(s) :
                              new_items[i].search_name = Min(SearchesListing(s))
                        /\ ~first_run =>
                              Cardinality({i \in DOMAIN forwarded : forwarded[i].slug = s}) = 1
                   ELSE /\ NewRecordsOf(s) = {}
                        /\ s \notin ForwardedSlugs)
    /\ [][replay.fixed =>
            \A s \in Slugs :
                (Cardinality(SearchesListing(s)) >= 2 /\ items[s] \in SearchesListing(s))
                    => items'[s] \in SearchesListing(s)]_vars

\* The cycle after the one that collected a slug listed by two searches: the
\* slug was stored under the last search, is not new and is still stored.
C27_Witness ==
    /\ replay.fixed
    /\ CycleCompleted
    /\ ~first_run
    /\ \E s \in Slugs : /\ Cardinality(SearchesListing(s)) >= 2
                        /\ replay.items[s] = NoCat
                        /\ s \in notifiedBefore
                        /\ cycleStartItems[s] = Max(SearchesListing(s))
                        /\ items[s] = Max(SearchesListing(s))
                        /\ NewRecordsOf(s) = {}

\* C29: batch_process_machines is all-or-nothing.  When a statement raises,
\* as the INSERT of an id stored under another search_title does, table
\* machines is as before the call and nothing is returned; when none raises,
\* every machine of the batch is stored under search_title, no other row
\* changes, and the machines returned are the ones of the batch that were not
\* stored under search_title, in the order of the batch.
C29_BatchAllOrNothing ==
    op.name = "batch_process_machines" =>
        /\ (\E i \in DOMAIN op.ids : op.before[op.ids[i]] \notin {NoCat, op.cat}) => op.raised
        /\ IF op.raised
           THEN /\ machinesTable = op.before
                /\ op.result = <<>>
           ELSE /\ \A i \in DOMAIN op.ids : machinesTable[op.ids[i]] = op.cat
                /\ \A s \in Slugs \ Range(op.ids) : machinesTable[s] = op.before[s]
                /\ op.result = SelectSeq(op.ids, LAMBDA id : op.before[id] # op.cat)

\* A batch whose first machine is not stored and whose second one is stored
\* under another search_title: the call raised and no row was added.
C29_Witness ==
    /\ op.name = "batch_process_machines"
    /\ op.raised
    /\ Len(op.ids) = 2
    /\ op.before[op.ids[1]] = NoCat
    /\ op.before[op.ids[2]] \notin {NoCat, op.cat}
    /\ machinesTable[op.ids[1]] = NoCat

Status200 == {"200", "200 undecodable"}

\* C26 as stated: fetch_single_page makes at most max_retries attempts,
\* returns the results of the first attempt that gets status 200, sleeps after
\* a failed attempt only when another attempt follows, and returns None when
\* all max_retries attempts failed.
C26_ReturnsFirstStatus200 ==
    /\ page.attempt <= max_retries
    /\ Len(page.outcomes) = page.attempt
    /\ \A i \in DOMAIN page.outcomes :
          page.outcomes[i] \in Status200
              => (i = page.attempt /\ page.returned = "results")
    /\ page.returned = "results" => page.sleeps = page.attempt - 1
    /\ page.returned = "None" => (page.attempt = max_retries /\ page.sleeps = max_retries - 1)

\* C26 amended: it returns the results of the first attempt that gets status
\* 200 and whose body response.json() decodes; an attempt with status 200
\* whose body is not decoded fails like one that raised, and is retried.
C26_ReturnsFirstDecoded200 ==
    /\ [](/\ page.attempt <= max_retries
          /\ Len(page.outcomes) = page.attempt
          /\ \A i \in DOMAIN page.outcomes :
                page.outcomes[i] = "200" => (i = page.attempt /\ page.returned = "results")
          /\ page.returned = "results"
                => /\ page.outcomes[page.attempt] = "200"
                   /\ page.sleeps = page.attempt - 1
          /\ page.returned = "None"
                => /\ page.attempt = max_retries
                   /\ page.sleeps = max_retries - 1
          /\ page.returned = "pending" => page.sleeps = (IF page.attempt = max_retries
                                                         THEN max_retries - 1 ELSE page.attempt))
    /\ [][page.returned # "pending" => page' = page]_vars
    /\ [][(page.returned = "pending" /\ page.attempt = max_retries)
            => page'.returned = "None"]_vars

\* The third attempt returned the results after a status other than 200 and
\* a status 200 with a body that was not decoded; two sleeps were taken.
C26_Witness ==
    /\ pc = "fetch_single_page"
    /\ page.returned = "results"
    /\ page.outcomes = <<"non-200", "200 undecodable", "200">>
    /\ page.sleeps = 2

\* The search just reconciled lost a page that held a slug stored under it.
LostStoredSlugs ==
    {s \in lost \ current_slugs_for_search : searchStartItems[s] = searched}

\* C25 as stated: a page after the first that fails is dropped silently, the
\* search is reconciled with the other pages, the rows of the search whose
\* slug was on the dropped page are deleted, and such a slug is collected as
\* new by the next fetch that contains it.
C25_LostPageDeletedThenNew ==
    searched # NoCat
        => /\ aborted = "no"
           /\ current_slugs_for_search = SlugsOf(upstream)
           /\ \A s \in LostStoredSlugs : items[s] = NoCat
           /\ lostDeleted \cap current_slugs_for_search = {}

\* C25 amended: such a slug is collected as new by the next fetch that
\* contains it in a later cycle; when a later search of the same cycle
\* fetches it, it is stored again without being collected as new.
C25_LostPageDeletedThenNewNextCycle ==
    searched # NoCat
        => /\ aborted = "no"
           /\ current_slugs_for_search = SlugsOf(upstream)
           /\ \A s \in LostStoredSlugs : items[s] = NoCat
           /\ LostStoredSlugs \subseteq lostDeleted
           /\ (lostDeleted \cap current_slugs_for_search)
                 \subseteq get_all_slugs(cycleStartItems)

\* A search reconciled that collected as new a slug whose row an earlier
\* cycle deleted because its page was dropped: the slug was stored when the
\* process started, is listed by the source for this search and was not stored
\* when this cycle started.
C25_Witness ==
    /\ replay.lossy
    /\ searched # NoCat
    /\ lost = {}
    /\ \E s \in NewFor(new_items, searched) :
          /\ replay.items[s] = searched
          /\ cycleStartItems[s] = NoCat
          /\ s \in SlugsOf(replay.fetch[searched].listing)
          /\ s \notin lostDeleted

\* The slug was upserted and collected as new by a cycle that is no first run.
InsertedAsNew(s) == ~first_run /\ s \in {r.slug : r \in Range(new_items)}

\* C22: in a process whose cycles keep running to their end, a slug that a
\* non-first-run cycle upserted and collected as new is passed to
\* send_new_items_notification by that cycle or by a later one, also when the
\* cycle that collected it was ended before its notification step.
C22_NewEventuallyForwarded ==
    ([]<>CycleCompleted)
        => \A s \in Slugs : (InsertedAsNew(s) ~> (s \in ForwardedSlugs))

=============================================================================
